---- MODULE Spec2Model ----
(***************************************************************************)
(* Conway's Game of Life over a sparse set of alive cells (src/main.rs).   *)
(*                                                                         *)
(* Three machines share this module:                                       *)
(*   IterSpec  one NeighborIterator, created for an arbitrary cell and     *)
(*             then driven by calls of next()                              *)
(*   Spec      one GOLGenerationIterator, created from a seed and then     *)
(*             driven by calls of next(), each of which applies            *)
(*             compute_next_gen to the stored generation                   *)
(*   LoopSpec  one run of compute_next_gen, its for loop taking the alive  *)
(*             cells one at a time in any order                            *)
(*                                                                         *)
(* CellCoordinate is u64 in the source.  The model keeps the type unsigned *)
(* and fixed-width but CoordBits wide, so that every cell between MIN and  *)
(* MAX can be enumerated.  An arithmetic result is reduced modulo 2^w      *)
(* (what a release build stores) and carries a flag ovf telling whether    *)
(* the exact result left MIN..MAX (where a debug build panics).            *)
(***************************************************************************)
EXTENDS Integers, Sequences, FiniteSets, TLC

VARIABLES
    iter,         \* the NeighborIterator struct
    yielded,      \* the cells its next() returned as Some, in order
    last,         \* what the latest next() returned (an Option<Cell>)
    ncalls,       \* how many times next() was called on it
    overflowed,   \* whether any arithmetic step so far left the coordinate range
    seed,         \* the seed set the GOLGenerationIterator was built from
    current_gen,  \* GOLGenerationIterator.current_gen
    item,         \* the set the latest GOLGenerationIterator::next() returned
    calls,        \* how many times GOLGenerationIterator::next() was called
    panicked,     \* whether an advance so far hit an arithmetic overflow
    gen_ret,      \* what the latest GOLGenerationIterator::next() returned (an Option)
    unvisited,    \* compute_next_gen: the alive cells its for loop has yet to visit
    next_set,     \* compute_next_gen: its local set `next`
    log           \* compute_next_gen: per visited cell, the NeighborStatus it got and
                  \* the result of each resurrection check it ran

vars == <<iter, yielded, last, ncalls, overflowed, seed, current_gen, item, calls,
          panicked, gen_ret, unvisited, next_set, log>>
iterVars == <<iter, yielded, last, ncalls, overflowed>>
genVars == <<seed, current_gen, item, calls, panicked, gen_ret>>
loopVars == <<unvisited, next_set, log>>

----------------------------------------------------------------------------
(* Bounds *)

\* width in bits of the modelled CellCoordinate
CoordBits == 3
\* calls of NeighborIterator::next() followed per iterator
MaxCalls == 11
\* largest number of alive cells in a drawn input generation
MaxCells == 5
\* a drawn input generation lies in the closed Moore neighbourhood of a cell
\* at most EdgeDepth away from MIN or MAX on each axis
EdgeDepth == 1
\* calls of GOLGenerationIterator::next() followed per seed
MaxGens == 4

----------------------------------------------------------------------------
(* The coordinate type *)

Modulus == 2 ^ CoordBits
MIN == 0
MAX == Modulus - 1
CellCoordinate == MIN..MAX
Cell == CellCoordinate \X CellCoordinate

\* Option<T>
None == <<>>
Some(x) == <<x>>

\* the elements of a Vec
Range(s) == {s[i] : i \in DOMAIN s}

\* val - 1 and val + 1 on the fixed-width unsigned type
Sub1(val) == [val |-> (val - 1) % Modulus, ovf |-> val - 1 < MIN]
Add1(val) == [val |-> (val + 1) % Modulus, ovf |-> val + 1 > MAX]

Exact(val) == [val |-> val, ovf |-> FALSE]

\* start_value without its guard at the type minimum
start_value_unguarded(val) == Sub1(val)

start_value(val) == IF val = MIN THEN Exact(val) ELSE Sub1(val)

\* end_value without its guard at the type maximum
end_value_unguarded(val) == Add1(val)

end_value(val) == IF val = MAX THEN Exact(val) ELSE Add1(val)

----------------------------------------------------------------------------
(* NeighborIterator *)

NeighborIterator_new(cell) ==
    LET row == cell[1]
        col == cell[2]
        sr == start_value(row)
        sc == start_value(col)
        er == end_value(row)
        ec == end_value(col)
    IN  [iter |-> [first_col |-> sc.val,
                   current_cell |-> <<row, col>>,
                   end_neighbor |-> <<er.val, ec.val>>,
                   current_neighbor |-> Some(<<sr.val, sc.val>>)],
         ovf |-> sr.ovf \/ sc.ovf \/ er.ovf \/ ec.ovf]

\* get_next_neighbor treating the end corner as an exclusive bound: None as
\* soon as the computed position is the end corner
get_next_neighbor_exclusive_end(it) ==
    IF it.current_neighbor = None
    THEN [val |-> None, ovf |-> FALSE]
    ELSE LET current_neighbor == it.current_neighbor[1]
             end_col == it.end_neighbor[2]
             cur_row == current_neighbor[1]
             cur_col == current_neighbor[2]
             nrow == Add1(cur_row)
             ncol == Add1(cur_col)
             neighbor == IF cur_col = end_col
                         THEN <<nrow.val, it.first_col>>
                         ELSE <<cur_row, ncol.val>>
         IN  IF current_neighbor = it.end_neighbor \/ neighbor = it.end_neighbor
             THEN [val |-> None, ovf |-> FALSE]
             ELSE [val |-> Some(neighbor),
                   ovf |-> IF cur_col = end_col THEN nrow.ovf ELSE ncol.ovf]

get_next_neighbor(it) ==
    IF it.current_neighbor = None
    THEN [val |-> None, ovf |-> FALSE]
    ELSE LET current_neighbor == it.current_neighbor[1]
             end_col == it.end_neighbor[2]
             cur_row == current_neighbor[1]
             cur_col == current_neighbor[2]
             nrow == Add1(cur_row)
             ncol == Add1(cur_col)
         IN  IF current_neighbor = it.end_neighbor
             THEN [val |-> None, ovf |-> FALSE]
             ELSE IF cur_col = end_col
                  THEN [val |-> Some(<<nrow.val, it.first_col>>), ovf |-> nrow.ovf]
                  ELSE [val |-> Some(<<cur_row, ncol.val>>), ovf |-> ncol.ovf]

\* next() without the step over the current cell
NeighborIterator_next_noskip(it) ==
    LET n1 == get_next_neighbor(it)
    IN  [iter |-> [it EXCEPT !.current_neighbor = n1.val],
         item |-> it.current_neighbor,
         ovf |-> n1.ovf]

NeighborIterator_next(it) ==
    LET current_neighbor == it.current_neighbor
        n1 == get_next_neighbor(it)
        it1 == [it EXCEPT !.current_neighbor = n1.val]
        skip == it1.current_neighbor = Some(it1.current_cell)
        n2 == get_next_neighbor(it1)
        it2 == IF skip THEN [it1 EXCEPT !.current_neighbor = n2.val] ELSE it1
    IN  [iter |-> it2,
         item |-> current_neighbor,
         ovf |-> n1.ovf \/ (skip /\ n2.ovf)]

\* `for neighbor in NeighborIterator::new(cell)`: the items up to the first None
RECURSIVE Collect(_)
Collect(it) ==
    LET r == NeighborIterator_next(it)
    IN  IF r.item = None THEN <<>> ELSE <<r.item[1]>> \o Collect(r.iter)

\* the for loop's items, per cell: a pure function of the cell, tabulated once
\* (merging with the empty function makes the table an explicit one)
Neighbors == <<>> @@ [cell \in Cell |-> Collect(NeighborIterator_new(cell).iter)]

\* whether that for loop evaluates an arithmetic step that leaves the range
RECURSIVE CollectOvf(_)
CollectOvf(it) ==
    LET r == NeighborIterator_next(it)
    IN  r.ovf \/ (r.item # None /\ CollectOvf(r.iter))

NeighborsPanic ==
    <<>> @@ [cell \in Cell |-> \/ NeighborIterator_new(cell).ovf
                                \/ CollectOvf(NeighborIterator_new(cell).iter)]

----------------------------------------------------------------------------
(* The iterator machine *)

IdleIter == NeighborIterator_new(<<MIN, MIN>>).iter

IterInit ==
    /\ \E cell \in Cell :
          /\ iter = NeighborIterator_new(cell).iter
          /\ overflowed = NeighborIterator_new(cell).ovf
    /\ yielded = <<>>
    /\ last = None
    /\ ncalls = 0
    /\ seed = {}
    /\ current_gen = {}
    /\ item = {}
    /\ calls = 0
    /\ panicked = FALSE
    /\ gen_ret = None
    /\ unvisited = {}
    /\ next_set = {}
    /\ log = <<>>

IterNext ==
    /\ ncalls < MaxCalls
    /\ LET r == NeighborIterator_next(iter)
       IN  /\ iter' = r.iter
           /\ last' = r.item
           /\ yielded' = IF r.item = None THEN yielded ELSE Append(yielded, r.item[1])
           /\ overflowed' = (overflowed \/ r.ovf)
    /\ ncalls' = ncalls + 1
    /\ UNCHANGED <<genVars, loopVars>>

IterSpec == IterInit /\ [][IterNext]_vars

----------------------------------------------------------------------------
(* The generation advancer *)

\* how many of the yielded items are in gen (an item counts each time it is
\* yielded)
CountAlive(s, gen) == Cardinality({i \in DOMAIN s : s[i] \in gen})

\* the resurrection test with `alive >= 3`
bring_cell_back_to_life_atleast3(cell, gen) ==
    CountAlive(Neighbors[cell], gen) >= 3

\* the resurrection test with `alive == 2`
bring_cell_back_to_life_two(cell, gen) ==
    CountAlive(Neighbors[cell], gen) = 2

bring_cell_back_to_life(cell, gen) ==
    LET alive == CountAlive(Neighbors[cell], gen)
    IN  alive = 3

\* get_neighbors_status without its else: every neighbour is pushed
get_neighbors_status_pushall(cell, gen) ==
    [alive_count |-> CountAlive(Neighbors[cell], gen),
     dead_neighbors |-> Neighbors[cell]]

get_neighbors_status(cell, gen) ==
    [alive_count |-> CountAlive(Neighbors[cell], gen),
     dead_neighbors |-> SelectSeq(Neighbors[cell], LAMBDA neighbor : neighbor \notin gen)]

\* the survival test with `alive == 3` alone
Survives_only3(alive) == alive = 3

\* the cell survives when its alive count is 2 or 3
Survives(alive) == alive = 2 \/ alive = 3

\* the loop body testing the candidates against the set being built
LoopBody_reads_next(cell, gen, next) ==
    LET neighbors == get_neighbors_status(cell, gen)
        alive == neighbors.alive_count
        dead == neighbors.dead_neighbors
        kept == IF Survives(alive) THEN next \cup {cell} ELSE next
    IN  kept \cup {dead[i] : i \in {j \in DOMAIN dead :
                                       bring_cell_back_to_life(dead[j], next)}}

\* the body of the for loop of compute_next_gen, for one alive cell
LoopBody(cell, gen, next) ==
    LET neighbors == get_neighbors_status(cell, gen)
        alive == neighbors.alive_count
        dead == neighbors.dead_neighbors
        kept == IF Survives(alive) THEN next \cup {cell} ELSE next
    IN  kept \cup {dead[i] : i \in {j \in DOMAIN dead :
                                       bring_cell_back_to_life(dead[j], gen)}}

\* `for cell in current_gen.iter()`: the HashSet is visited in some order
RECURSIVE ForEach(_, _, _)
ForEach(todo, gen, next) ==
    IF todo = {}
    THEN next
    ELSE LET cell == CHOOSE c \in todo : TRUE
         IN  ForEach(todo \ {cell}, gen, LoopBody(cell, gen, next))

compute_next_gen(gen) == ForEach(gen, gen, {})

\* whether compute_next_gen(gen) evaluates an overflowing arithmetic step: in
\* the enumeration around an alive cell or around one of its dead neighbours
compute_next_gen_panics(gen) ==
    \E cell \in gen :
        \/ NeighborsPanic[cell]
        \/ \E d \in Range(get_neighbors_status(cell, gen).dead_neighbors) :
              NeighborsPanic[d]

----------------------------------------------------------------------------
(* The generation machine *)

\* the seed of main()
MainSeed == {<<1, 3>>, <<2, 2>>, <<2, 3>>, <<2, 4>>, <<3, 2>>, <<3, 4>>, <<4, 3>>}

\* the horizontal three-cell blinker
Blinker == {<<1, 1>>, <<1, 2>>, <<1, 3>>}

\* the 2x2 block whose least corner is (r, c)
Block(r, c) == {<<r, c>>, <<r, c + 1>>, <<r + 1, c>>, <<r + 1, c + 1>>}

Blocks == {Block(r, c) : r \in MIN..(MAX - 1), c \in MIN..(MAX - 1)}

Abs(x) == IF x < 0 THEN -x ELSE x

\* the cells at most one step away from cell on both axes, cell included
ClosedMoore(cell) ==
    {n \in Cell : Abs(n[1] - cell[1]) <= 1 /\ Abs(n[2] - cell[2]) <= 1}

NearEdge == {v \in CellCoordinate : v - MIN <= EdgeDepth \/ MAX - v <= EdgeDepth}

\* the drawn input generations
\* every generation of one alive cell
Singles == {{c} : c \in Cell}

LocalSets ==
    UNION {{g \in SUBSET ClosedMoore(focus) : Cardinality(g) <= MaxCells} :
           focus \in NearEdge \X NearEdge}

Seeds == LocalSets \cup Blocks \cup Singles \cup {Blinker, MainSeed}

\* a Vec holding the cells of s, and the Vecs drawn for a seed set: one
\* without and one with repeated cells
RECURSIVE AsVec(_)
AsVec(s) ==
    IF s = {} THEN <<>>
    ELSE LET c == CHOOSE x \in s : TRUE IN <<c>> \o AsVec(s \ {c})
SeedVecs(s) == {AsVec(s), AsVec(s) \o AsVec(s)}

\* seed.into_iter().collect() into a HashSet
GOLGenerationIterator_new(v) == [current_gen |-> Range(v)]

\* next() returning the new generation instead of the replaced one
GOLGenerationIterator_next_newgen(self) ==
    LET next_gen == compute_next_gen(self.current_gen)
    IN  [self |-> [current_gen |-> next_gen], item |-> Some(next_gen)]

GOLGenerationIterator_next(self) ==
    LET next_gen == compute_next_gen(self.current_gen)
    IN  [self |-> [current_gen |-> next_gen], item |-> Some(self.current_gen)]

Init ==
    /\ seed \in Seeds
    /\ \E v \in SeedVecs(seed) :
          current_gen = GOLGenerationIterator_new(v).current_gen
    /\ item = {}
    /\ calls = 0
    /\ panicked = FALSE
    /\ gen_ret = None
    /\ unvisited = {}
    /\ next_set = {}
    /\ log = <<>>
    /\ iter = IdleIter
    /\ yielded = <<>>
    /\ last = None
    /\ ncalls = 0
    /\ overflowed = FALSE

GenNext ==
    /\ calls < MaxGens
    /\ LET r == GOLGenerationIterator_next([current_gen |-> current_gen])
       IN  /\ current_gen' = r.self.current_gen
           /\ gen_ret' = r.item
           /\ item' = IF r.item = None THEN item ELSE r.item[1]
    /\ calls' = calls + 1
    /\ panicked' = (panicked \/ compute_next_gen_panics(current_gen))
    /\ UNCHANGED <<seed, iterVars, loopVars>>

Spec == Init /\ [][GenNext]_vars

----------------------------------------------------------------------------
(* The loop machine *)

\* largest number of alive cells in a drawn input of the loop machine
MaxLoopCells == 3

LoopInputs ==
    {g \in LocalSets : Cardinality(g) <= MaxLoopCells} \cup Blocks \cup {MainSeed}

\* the results of the filter over dead_neighbors, in order
ResurrectionChecks(cell, gen) ==
    LET dead == get_neighbors_status(cell, gen).dead_neighbors
    IN  [i \in DOMAIN dead |-> bring_cell_back_to_life(dead[i], gen)]

LoopInit ==
    /\ current_gen \in LoopInputs
    /\ unvisited = current_gen
    /\ next_set = {}
    /\ log = <<>>
    /\ seed = {}
    /\ item = {}
    /\ calls = 0
    /\ panicked = FALSE
    /\ gen_ret = None
    /\ iter = IdleIter
    /\ yielded = <<>>
    /\ last = None
    /\ ncalls = 0
    /\ overflowed = FALSE

\* one pass of the for loop, for whichever cell the HashSet gives next
LoopStep ==
    \E cell \in unvisited :
        /\ next_set' = LoopBody(cell, current_gen, next_set)
        /\ unvisited' = unvisited \ {cell}
        /\ log' = log @@ (cell :> [status |-> get_neighbors_status(cell, current_gen),
                                   checks |-> ResurrectionChecks(cell, current_gen)])
        /\ UNCHANGED <<iterVars, genVars>>

LoopSpec == LoopInit /\ [][LoopStep]_vars

----------------------------------------------------------------------------
(* Notions the properties are stated with *)

\* the in-range Moore neighbours of cell: at most one step away on both axes,
\* cell itself excluded
MooreNeighbors(cell) == ClosedMoore(cell) \ {cell}

\* how many cells of gen are Moore neighbours of cell
MooreCount(cell, gen) ==
    Cardinality({g \in gen : /\ g # cell
                             /\ Abs(g[1] - cell[1]) <= 1
                             /\ Abs(g[2] - cell[2]) <= 1})

Distinct(s) == \A i, j \in DOMAIN s : i # j => s[i] # s[j]

\* the cell the iterator was created for
Center == iter.current_cell
\* the iterator has returned None
Finished == ncalls > 0 /\ last = None
Inside(v) == MIN < v /\ v < MAX

\* start and end of the clipped rectangle, in exact integers
ClipStart(v) == IF v = MIN THEN v ELSE v - 1
ClipEnd(v) == IF v = MAX THEN v ELSE v + 1
Rectangle(cell) ==
    (ClipStart(cell[1])..ClipEnd(cell[1])) \X (ClipStart(cell[2])..ClipEnd(cell[2]))

----------------------------------------------------------------------------
(* Properties of the generation machine (Spec) *)

\* C1: after an advance, a cell of the input generation is in the output
\* exactly when 2 or 3 of its in-range Moore neighbours (itself not counted)
\* are in the input generation.
C1_SurvivalRule ==
    calls > 0 =>
        \A c \in item : (c \in current_gen) <=> (MooreCount(c, item) \in {2, 3})

\* C2: after an advance, a cell outside the input generation is in the output
\* exactly when 3 of its in-range Moore neighbours are in the input generation
\* (so every such cell is found as a candidate, and no cell without an alive
\* neighbour is born).
C2_BirthRule ==
    calls > 0 =>
        \A d \in Cell \ item : (d \in current_gen) <=> (MooreCount(d, item) = 3)

\* a birth happened, at the corner cell (MIN, MIN) and elsewhere
C2_Witness ==
    /\ calls > 0
    /\ <<MIN, MIN>> \in current_gen \ item
    /\ \E d \in current_gen \ item : Inside(d[1]) /\ Inside(d[2])

\* C8: a 2x2 block is a still life wherever it is placed.
C8_BlockStillLife ==
    (calls > 0 /\ item \in Blocks) => current_gen = item

\* C9: the horizontal blinker becomes the vertical one and comes back.
C9_BlinkerPeriod2 ==
    seed = Blinker =>
        /\ calls = 1 => current_gen = {<<0, 2>>, <<1, 2>>, <<2, 2>>}
        /\ calls = 2 => current_gen = Blinker

C9_Witness == seed = Blinker /\ calls = 2 /\ item = {<<0, 2>>, <<1, 2>>, <<2, 2>>}

Translate(gen, dr, dc) == {<<g[1] + dr, g[2] + dc>> : g \in gen}
DiagonalShiftOf(gen, of) ==
    \E dr \in {-1, 1}, dc \in {-1, 1} : gen = Translate(of, dr, dc)

\* C10 as stated: four advances of the seed of main() give the seed shifted
\* by one cell diagonally.
C10_GliderPeriod4 ==
    (seed = MainSeed /\ calls = 4) => DiagonalShiftOf(current_gen, MainSeed)

\* the fourth generation of the seed of main()
MainSeedGen4 ==
    {<<0, 2>>, <<0, 3>>, <<0, 4>>, <<1, 1>>, <<1, 5>>, <<2, 0>>, <<2, 6>>,
     <<3, 1>>, <<3, 5>>, <<4, 2>>, <<4, 3>>, <<4, 4>>}

\* C10 amended: four advances of the seed of main() give the twelve-cell ring
\* MainSeedGen4, which is not the seed shifted by one cell diagonally.
C10_FourthGeneration ==
    (seed = MainSeed /\ calls = 4) =>
        /\ current_gen = MainSeedGen4
        /\ ~DiagonalShiftOf(current_gen, MainSeed)

C10_Witness == seed = MainSeed /\ calls = 4 /\ Cardinality(current_gen) = 12

\* C11: an advance never fails (no arithmetic step of it leaves the
\* coordinate range, and its result is a set of cells), and the advance of the
\* empty generation is empty: nothing is born without an alive cell.
C11_TotalAndEmptyStaysEmpty ==
    /\ ~panicked
    /\ current_gen \subseteq Cell
    /\ (calls > 0 /\ item = {}) => current_gen = {}

C11_Witness == calls > 0 /\ seed = {} /\ item = {} /\ current_gen = {} /\ ~panicked

\* C12: the advance of a generation of one alive cell is empty, and the
\* alive-neighbour count computed for that cell is 0.
C12_SingleCellDies ==
    (calls > 0 /\ Cardinality(item) = 1) =>
        /\ current_gen = {}
        /\ \A c \in item : get_neighbors_status(c, item).alive_count = 0

\* compute_next_gen applied n times to s
RECURSIVE Orbit(_, _)
Orbit(n, s) == IF n = 0 THEN s ELSE compute_next_gen(Orbit(n - 1, s))

\* C13: after n calls of next() the stored generation is compute_next_gen
\* applied n times to the seed set, and the n-th call returned Some of
\* compute_next_gen applied n-1 times to it (the first item is the seed set
\* itself, repeated cells of the Vec counted once); next() never returns None.
C13_YieldsOrbit ==
    /\ current_gen = Orbit(calls, seed)
    /\ calls > 0 =>
          /\ gen_ret # None
          /\ gen_ret = Some(Orbit(calls - 1, seed))

C13_Witness ==
    /\ seed = MainSeed
    /\ calls = 3
    /\ gen_ret = Some(item)
    /\ item # current_gen

----------------------------------------------------------------------------
(* Properties of the iterator machine (IterSpec) *)

\* C3: once the iterator has returned None, the items it yielded are pairwise
\* distinct, none is the cell itself, and together they are the clipped
\* rectangle around the cell minus the cell.
C3_YieldsClippedRectangle ==
    Finished =>
        /\ Distinct(yielded)
        /\ Center \notin Range(yielded)
        /\ Range(yielded) = Rectangle(Center) \ {Center}

\* C4: no arithmetic step of the enumeration leaves the coordinate range, and
\* every yielded cell is at most one step from the cell in exact integers (no
\* coordinate is a wrapped-around value).
C4_NoOverflow ==
    /\ ~overflowed
    /\ \A i \in DOMAIN yielded :
          /\ yielded[i] \in Cell
          /\ Abs(yielded[i][1] - Center[1]) <= 1
          /\ Abs(yielded[i][2] - Center[2]) <= 1

\* the enumeration ran to its end for a cell at MIN on one axis and MAX on the other
C4_Witness ==
    /\ Finished
    /\ Center \in {<<MIN, MAX>>, <<MAX, MIN>>}
    /\ Len(yielded) = 3

\* C5: the cell (MIN, MIN) has exactly 3 items; a cell at MIN on one axis and
\* strictly inside on the other has exactly 5.
C5_MinBoundaryCounts ==
    Finished =>
        /\ Center = <<MIN, MIN>> => Len(yielded) = 3
        /\ (Center[1] = MIN /\ Inside(Center[2])) => Len(yielded) = 5
        /\ (Inside(Center[1]) /\ Center[2] = MIN) => Len(yielded) = 5

\* C6: the cell (MAX, MAX) has exactly 3 items, none of them (MAX, MAX); a cell
\* at MAX on one axis and strictly inside on the other has exactly 5.
C6_MaxBoundaryCounts ==
    Finished =>
        /\ Center = <<MAX, MAX>> =>
              (Len(yielded) = 3 /\ <<MAX, MAX>> \notin Range(yielded))
        /\ (Center[1] = MAX /\ Inside(Center[2])) => Len(yielded) = 5
        /\ (Inside(Center[1]) /\ Center[2] = MAX) => Len(yielded) = 5

C6_Witness == Finished /\ Center = <<MAX, MAX>> /\ Len(yielded) = 3

\* C7: a cell strictly inside the range on both axes has exactly 8 items,
\* pairwise distinct, none of them the cell.
C7_InteriorEight ==
    (Finished /\ Inside(Center[1]) /\ Inside(Center[2])) =>
        /\ Len(yielded) = 8
        /\ Distinct(yielded)
        /\ Center \notin Range(yielded)

C7_Witness ==
    /\ Finished
    /\ Inside(Center[1]) /\ Inside(Center[2])
    /\ Cardinality(Range(yielded)) = 8

\* row-major order of positions
RowMajorLess(a, b) == a[1] < b[1] \/ (a[1] = b[1] /\ a[2] < b[2])
\* the positions of the clipped rectangle other than the cell
NonCenter == Rectangle(Center) \ {Center}
FirstNonCenter == CHOOSE x \in NonCenter : \A y \in NonCenter : x = y \/ RowMajorLess(x, y)
LastNonCenter == CHOOSE x \in NonCenter : \A y \in NonCenter : x = y \/ RowMajorLess(y, x)
EndCorner == <<ClipEnd(Center[1]), ClipEnd(Center[2])>>

\* C14: consecutive items are in strictly increasing row-major order; the
\* first item is the first position of the clipped rectangle other than the
\* cell, and the last item is the last such position.
C14_RowMajorOrder ==
    /\ \A i \in 1..(Len(yielded) - 1) : RowMajorLess(yielded[i], yielded[i + 1])
    /\ Len(yielded) >= 1 => yielded[1] = FirstNonCenter
    /\ Finished => (Len(yielded) >= 1 /\ yielded[Len(yielded)] = LastNonCenter)

\* C15: next() returns Some at most 8 times; the end corner of the rectangle
\* is yielded at most once, and not at all when it is the cell itself; once
\* next() has returned None, every later call returns None.
C15_Terminates ==
    /\ [](/\ Len(yielded) <= 8
          /\ Cardinality({i \in DOMAIN yielded : yielded[i] = EndCorner}) <= 1
          /\ EndCorner = Center => EndCorner \notin Range(yielded))
    /\ [][Finished => last' = None]_vars

\* None was returned more than once after 8 items, the end corner among them
C15_Witness ==
    /\ Finished
    /\ Len(yielded) = 8
    /\ ncalls >= Len(yielded) + 2
    /\ yielded[8] = EndCorner

\* C17: for a cell b other than the cell a the iterator was created for, b is
\* among the items yielded for a exactly when a is among the items yielded
\* for b.
C17_Symmetric ==
    Finished =>
        \A b \in Cell \ {Center} :
            (b \in Range(yielded)) <=> (Center \in Range(Neighbors[b]))

C17_Witness ==
    /\ Finished
    /\ Center = <<MIN, MIN>>
    /\ <<MIN + 1, MIN + 1>> \in Range(yielded)
    /\ Center \in Range(Neighbors[<<MIN + 1, MIN + 1>>])

----------------------------------------------------------------------------
(* Properties of the loop machine (LoopSpec) *)

\* the dead neighbours a visited cell proposed, with the result of each check
Proposals(c) ==
    {<<log[c].status.dead_neighbors[i], log[c].checks[i]>> :
        i \in DOMAIN log[c].checks}

\* C16: whatever the order in which the alive cells were visited, the loop
\* ends with the same set; a dead cell proposed by several alive cells gets
\* the same answer each time, and is in the output when that answer is yes.
C16_OrderIndependent ==
    /\ unvisited = {} => next_set = compute_next_gen(current_gen)
    /\ \A c1, c2 \in DOMAIN log :
          \A p1 \in Proposals(c1), p2 \in Proposals(c2) :
              p1[1] = p2[1] => p1[2] = p2[2]
    /\ \A c \in DOMAIN log :
          \A p \in Proposals(c) : p[2] => p[1] \in next_set

\* the loop ended and a dead cell proposed by two alive cells was resurrected
C16_Witness ==
    /\ unvisited = {}
    /\ \E c1, c2 \in DOMAIN log :
          /\ c1 # c2
          /\ \E d \in next_set \ current_gen :
                <<d, TRUE>> \in Proposals(c1) \cap Proposals(c2)

====
